---- MODULE Spec2Model ----
(***************************************************************************)
(* Authentication and account-lockout subsystem of vocaboost-backend:      *)
(* the login-attempts middleware (Lockout Guard), the POST /login route    *)
(* (gate followed by AuthController.login), and the Google OAuth verify    *)
(* callback (Identity Reconciler).                                         *)
(*                                                                         *)
(* Time is the wall clock in seconds; Date.now() is DateNow(now) in ms.    *)
(* The cache service, the credential directory and the profiles table are  *)
(* external collaborators, modelled by what their callers rely on.         *)
(***************************************************************************)
EXTENDS Integers, Sequences, FiniteSets, TLC

VARIABLES
    now,          \* wall clock, seconds
    cache,        \* cache store: key -> entry (present, value, expiresAt)
    identities,   \* credential directory: email -> identity id, or NoId
    profiles,     \* profiles table: identity id -> row (exists, role, account_status, last_seen_at)
    rowCount,     \* profiles table: identity id -> number of rows with that id
    teachers,     \* teachers_info table: the profile ids that have a record
    issued,       \* the claims of the session tokens handed out so far
    callbacks,    \* OAuth callbacks in flight: position and locals of each
    trackers,     \* trackFailedAttempt calls in flight: position and locals of each
    failedRun,    \* history: run of back-to-back failed POST /login responses for one email
    ret           \* the last operation performed and what it returned

vars == <<now, cache, identities, profiles, rowCount, teachers, issued, callbacks,
          trackers, failedRun, ret>>

(***************************************************************************)
(* Bounds of the model.                                                    *)
(***************************************************************************)
MaxTicks == 2            \* the clock advances at most MaxTicks times
MaxEmailCount == 6       \* cap of an email-scoped counter
MaxIpCount == 11         \* cap of an IP-scoped counter

Emails == {"a@x.com", "b@x.com"}
IPs == {"10.0.0.1", "10.0.0.2"}
ClientIPs == {"10.0.0.1"}  \* the address the tracked requests come from
Passwords == {"correct", "wrong"}
NoEmail == ""            \* req.body.email missing (falsy)

(***************************************************************************)
(* LoginAttemptsMiddleware constructor.                                    *)
(***************************************************************************)
maxAttempts == 5
lockoutDuration == 15 * 60
\* an attempt window twice as long as the lockout
attemptWindow_twice == 2 * (15 * 60)

attemptWindow == 15 * 60

\* the clock advances in steps of half an attempt window
TickStep == attemptWindow \div 2
MaxTime == MaxTicks * TickStep

DateNow(t) == t * 1000

\* Math.ceil(a / b) for b > 0 and any integer a
MathCeil(a, b) == -((-a) \div b)

\* the second argument whatever the first is
MathMax_second(a, b) == b

MathMax(a, b) == IF a >= b THEN a ELSE b

(***************************************************************************)
(* Cache store.                                                            *)
(***************************************************************************)
attemptsKey(email) == <<"login_attempts", email>>
ipKey(ip) == <<"login_attempts_ip", ip>>
lockKey(email) == <<"account_locked", email>>

Keys == {attemptsKey(e) : e \in Emails} \cup {ipKey(i) : i \in IPs}
            \cup {lockKey(e) : e \in Emails}

NoLockData == [email |-> "", attempts |-> 0, ipAddress |-> "",
               lockedAt |-> 0, lockedUntil |-> 0, reason |-> <<0, "">>]

Absent(k) == [present |-> FALSE,
              value |-> IF k[1] = "account_locked" THEN NoLockData ELSE 0,
              expiresAt |-> 0]

\* get(key): the entry, or absent
cacheGet(c, k) == c[k]

\* an increment that overwrites the counter instead of adding to it
cacheIncr_overwrite(c, k, ttl, t) ==
    [c EXCEPT ![k] = [present |-> TRUE, value |-> 1, expiresAt |-> t + ttl]]

\* increment(key, ttl): atomic; the TTL is applied only when the key is created
cacheIncr(c, k, ttl, t) ==
    IF c[k].present
        THEN [c EXCEPT ![k].value = @ + 1]
        ELSE [c EXCEPT ![k] = [present |-> TRUE, value |-> 1, expiresAt |-> t + ttl]]

\* set(key, value, ttl)
cacheSet(c, k, v, ttl, t) ==
    [c EXCEPT ![k] = [present |-> TRUE, value |-> v, expiresAt |-> t + ttl]]

\* delete(key)
cacheDel(c, k) == [c EXCEPT ![k] = Absent(k)]

\* the store drops every key whose TTL has run out at time t
cacheExpire(c, t) ==
    [k \in Keys |-> IF c[k].present /\ c[k].expiresAt <= t THEN Absent(k) ELSE c[k]]

(***************************************************************************)
(* Lockout Guard (LoginAttemptsMiddleware).  A cache operation may fail    *)
(* (throw); the fail argument of an operator names the call that does.     *)
(***************************************************************************)
TrackFailures == {"none", "incrEmail", "incrIp", "setLock", "findByEmail",
                  "sendNotification"}
ClearFailures == {"none", "delEmail", "delIp", "delLock"}

lockReason(attempts) == <<attempts, "failed login attempts">>

\* lockAccount with the TTL of the lock record given in milliseconds
lockAccount_ttlInMs(c, email, attempts, ip, t, fail) ==
    LET lockedUntil == DateNow(t) + (lockoutDuration * 1000)
        lockData == [email |-> email, attempts |-> attempts, ipAddress |-> ip,
                     lockedAt |-> DateNow(t), lockedUntil |-> lockedUntil,
                     reason |-> <<attempts, "failed login attempts">>]
    IN  IF fail = "setLock"
            THEN c
            ELSE cacheSet(c, lockKey(email), lockData, lockoutDuration * 1000, t)

\* lockAccount with the notification sent before the record is written
lockAccount_notifyFirst(c, email, attempts, ip, t, fail) ==
    LET lockedUntil == DateNow(t) + (lockoutDuration * 1000)
        lockData == [email |-> email, attempts |-> attempts, ipAddress |-> ip,
                     lockedAt |-> DateNow(t), lockedUntil |-> lockedUntil,
                     reason |-> <<attempts, "failed login attempts">>]
    IN  IF fail \in {"setLock", "findByEmail", "sendNotification"}
            THEN c
            ELSE cacheSet(c, lockKey(email), lockData, lockoutDuration, t)

\* lockAccount: writes the lock record; every failure is caught and logged.
\* The notification (Profile.findByEmail, sendAccountLockedNotification)
\* follows the write in its own try/catch: when it throws ("findByEmail",
\* "sendNotification") the record is already in the cache.
lockAccount(c, email, attempts, ip, t, fail) ==
    LET lockedUntil == DateNow(t) + (lockoutDuration * 1000)
        lockData == [email |-> email, attempts |-> attempts, ipAddress |-> ip,
                     lockedAt |-> DateNow(t), lockedUntil |-> lockedUntil,
                     reason |-> lockReason(attempts)]
    IN  IF fail = "setLock"
            THEN c
            ELSE cacheSet(c, lockKey(email), lockData, lockoutDuration, t)

trackResult(attempts, ipAttempts, remaining, isLocked) ==
    [attempts |-> attempts, ipAttempts |-> ipAttempts,
     remainingAttempts |-> remaining, isLocked |-> isLocked]

\* trackFailedAttempt: <<cache after the call, returned object>>
trackFailedAttempt(c, email, ip, t, fail) ==
    LET failed == trackResult(0, 0, maxAttempts, FALSE)
        c1 == cacheIncr(c, attemptsKey(email), attemptWindow, t)
        c2 == cacheIncr(c1, ipKey(ip), attemptWindow, t)
        attempts == c2[attemptsKey(email)].value
        ipAttempts == c2[ipKey(ip)].value
        c3 == IF attempts >= maxAttempts
                  THEN lockAccount(c2, email, attempts, ip, t, fail)
                  ELSE c2
    IN  CASE fail = "incrEmail" -> <<c, failed>>
          [] fail = "incrIp" -> <<c1, failed>>
          [] OTHER -> <<c3, trackResult(attempts, ipAttempts,
                                        MathMax(0, maxAttempts - attempts),
                                        attempts >= maxAttempts)>>

\* clearAttempts that deletes the lock record of every email
clearAttempts_allLocks(c, email, ip, fail) ==
    LET c1 == cacheDel(c, attemptsKey(email))
        c2 == cacheDel(c1, ipKey(ip))
        c3 == [k \in Keys |-> IF k[1] = "account_locked" THEN Absent(k) ELSE c2[k]]
    IN  CASE fail = "delEmail" -> c
          [] fail = "delIp" -> c1
          [] fail = "delLock" -> c2
          [] OTHER -> c3

\* clearAttempts that leaves the lock record in place
clearAttempts_keepsLock(c, email, ip, fail) ==
    LET c1 == cacheDel(c, attemptsKey(email))
        c2 == cacheDel(c1, ipKey(ip))
    IN  CASE fail = "delEmail" -> c
          [] fail = "delIp" -> c1
          [] OTHER -> c2

\* clearAttempts: three deletes in one try block; a failing delete skips the rest
clearAttempts(c, email, ip, fail) ==
    LET c1 == cacheDel(c, attemptsKey(email))
        c2 == cacheDel(c1, ipKey(ip))
        c3 == cacheDel(c2, lockKey(email))
    IN  CASE fail = "delEmail" -> c
          [] fail = "delIp" -> c1
          [] fail = "delLock" -> c2
          [] OTHER -> c3

lockStatus(isLocked, reason, lockedUntil, remainingMinutes) ==
    [isLocked |-> isLocked, reason |-> reason, lockedUntil |-> lockedUntil,
     remainingMinutes |-> remainingMinutes]

NotLocked == lockStatus(FALSE, <<0, "">>, 0, 0)

\* lockStatusOf without the floor of remainingMinutes at 1
lockStatusOf_noFloor(entry, tms) ==
    IF entry.present
        THEN lockStatus(TRUE, entry.value.reason, entry.value.lockedUntil,
                        MathCeil(entry.value.lockedUntil - tms, 1000 * 60))
        ELSE lockStatus(FALSE, <<0, "">>, 0, 0)

\* isAccountLocked on the lock record read from the cache at time tms (ms)
lockStatusOf(entry, tms) ==
    IF entry.present
        THEN LET lockData == entry.value
                 remainingTime == MathCeil(lockData.lockedUntil - tms, 1000 * 60)
             IN  lockStatus(TRUE, lockData.reason, lockData.lockedUntil,
                            IF remainingTime > 0 THEN remainingTime ELSE 1)
        ELSE NotLocked

\* isAccountLocked that reports a failing cache read as locked
isAccountLocked_failClosed(c, email, t, fail) ==
    IF fail
        THEN lockStatus(TRUE, <<0, "">>, 0, 1)
        ELSE lockStatusOf(cacheGet(c, lockKey(email)), DateNow(t))

\* isAccountLocked: a failing cache read is caught and reported as not locked
isAccountLocked(c, email, t, fail) ==
    IF fail THEN NotLocked ELSE lockStatusOf(cacheGet(c, lockKey(email)), DateNow(t))

gateResult(next, status, kind, details, tracking) ==
    [next |-> next, status |-> status, kind |-> kind, details |-> details,
     tracking |-> tracking]

\* checkLoginAttempts without the lock short-circuit
checkLoginAttempts_ignoreLock(c, email, ip, t, failLock, failIp) ==
    LET entry == cacheGet(c, ipKey(ip))
        ipAttempts == IF entry.present THEN entry.value ELSE 0
    IN  CASE email = NoEmail -> gateResult(TRUE, 0, "next", NotLocked, FALSE)
          [] email # NoEmail /\ failIp ->
                gateResult(TRUE, 0, "next", NotLocked, FALSE)
          [] email # NoEmail /\ ~failIp /\ ipAttempts >= maxAttempts * 2 ->
                gateResult(FALSE, 429, "RateLimited", NotLocked, FALSE)
          [] OTHER -> gateResult(TRUE, 0, "next", NotLocked, TRUE)

\* checkLoginAttempts with the IP cutoff compared by > instead of >=
checkLoginAttempts_strictCutoff(c, email, ip, t, failLock, failIp) ==
    LET status == isAccountLocked(c, email, t, failLock)
        entry == cacheGet(c, ipKey(ip))
        ipAttempts == IF entry.present THEN entry.value ELSE 0
    IN  CASE email = NoEmail -> gateResult(TRUE, 0, "next", NotLocked, FALSE)
          [] email # NoEmail /\ status.isLocked ->
                gateResult(FALSE, 429, "AccountLocked", status, FALSE)
          [] email # NoEmail /\ ~status.isLocked /\ failIp ->
                gateResult(TRUE, 0, "next", NotLocked, FALSE)
          [] email # NoEmail /\ ~status.isLocked /\ ~failIp
                /\ ipAttempts > maxAttempts * 2 ->
                gateResult(FALSE, 429, "RateLimited", NotLocked, FALSE)
          [] OTHER -> gateResult(TRUE, 0, "next", NotLocked, TRUE)

\* checkLoginAttempts: the middleware in front of AuthController.login.
\* next = TRUE when it calls next(); tracking = TRUE when req.loginTracking
\* was attached.
checkLoginAttempts(c, email, ip, t, failLock, failIp) ==
    LET status == isAccountLocked(c, email, t, failLock)
        entry == cacheGet(c, ipKey(ip))
        ipAttempts == IF entry.present THEN entry.value ELSE 0
    IN  CASE email = NoEmail -> gateResult(TRUE, 0, "next", NotLocked, FALSE)
          [] email # NoEmail /\ status.isLocked ->
                gateResult(FALSE, 429, "AccountLocked", status, FALSE)
          [] email # NoEmail /\ ~status.isLocked /\ failIp ->
                gateResult(TRUE, 0, "next", NotLocked, FALSE)
          [] email # NoEmail /\ ~status.isLocked /\ ~failIp
                /\ ipAttempts >= maxAttempts * 2 ->
                gateResult(FALSE, 429, "RateLimited", NotLocked, FALSE)
          [] OTHER -> gateResult(TRUE, 0, "next", NotLocked, TRUE)

(***************************************************************************)
(* Credential directory, profiles table, token issuer.                     *)
(***************************************************************************)
MaxIds == 3
Ids == 1..MaxIds
NoId == 0

Roles == {"learner", "teacher", "admin"}
Statuses == {"pending_verification", "active", "suspended"}
Never == -1              \* last_seen_at not set

NoProfile == [exists |-> FALSE, id |-> NoId, role |-> "", account_status |-> "",
              last_seen_at |-> Never]

profileRow(id, role, status) ==
    [exists |-> TRUE, id |-> id, role |-> role, account_status |-> status,
     last_seen_at |-> Never]

\* Profile.findById: the row, or NoProfile
findById(profs, id) == IF id \in Ids THEN profs[id] ELSE NoProfile

NoToken == [userId |-> NoId, email |-> "", role |-> ""]

\* generateToken: the claims the signed token carries
generateToken(userId, email, role) == [userId |-> userId, email |-> email, role |-> role]

\* supabase.auth.signInWithPassword: the identity id, or NoId on signInError
signInWithPassword(ids, email, password) ==
    IF email \in Emails /\ ids[email] # NoId /\ password = "correct"
        THEN ids[email]
        ELSE NoId

LoginFailures == {"none", "findById", "update"}

loginResult(status, error, profs, token, user) ==
    [status |-> status, error |-> error, profiles |-> profs, token |-> token,
     user |-> user]

\* a login that signs the claims of the request instead of the profile's and
\* leaves last_seen_at alone
login_requestClaims(ids, profs, email, password, t, fail) ==
    LET user == signInWithPassword(ids, email, password)
        userProfile == findById(profs, user)
    IN  CASE user = NoId ->
                loginResult(401, "Invalid email or password", profs, NoToken, NoProfile)
          [] user # NoId /\ ~userProfile.exists ->
                loginResult(401, "Invalid credentials. Profile not found.", profs, NoToken,
                            NoProfile)
          [] user # NoId /\ userProfile.exists /\ userProfile.account_status = "suspended" ->
                loginResult(403, "Your account has been suspended.", profs, NoToken, NoProfile)
          [] user # NoId /\ userProfile.exists
                /\ userProfile.account_status = "pending_verification" ->
                loginResult(403, "Please verify your email before logging in.", profs,
                            NoToken, NoProfile)
          [] OTHER ->
                loginResult(200, "", profs, generateToken(user, email, "learner"), userProfile)

\* a login that does not look at the account status
login_statusUnchecked(ids, profs, email, password, t, fail) ==
    LET user == signInWithPassword(ids, email, password)
        userProfile == findById(profs, user)
    IN  CASE user = NoId ->
                loginResult(401, "Invalid email or password", profs, NoToken, NoProfile)
          [] user # NoId /\ ~userProfile.exists ->
                loginResult(401, "Invalid credentials. Profile not found.", profs, NoToken,
                            NoProfile)
          [] OTHER ->
                loginResult(200, "", [profs EXCEPT ![userProfile.id].last_seen_at = t],
                            generateToken(userProfile.id, email, userProfile.role),
                            userProfile)

\* AuthController.login: the response and the profiles table after it.
\* A throwing store call (fail) goes to next(error), reported as status 500.
\* req.loginTracking is not used by the controller.
login(ids, profs, email, password, t, fail) ==
    LET user == signInWithPassword(ids, email, password)
        userProfile == findById(profs, user)
        appToken == generateToken(userProfile.id, email, userProfile.role)
    IN  CASE user = NoId ->
                loginResult(401, "Invalid email or password", profs, NoToken, NoProfile)
          [] user # NoId /\ fail = "findById" ->
                loginResult(500, "error", profs, NoToken, NoProfile)
          [] user # NoId /\ fail # "findById" /\ ~userProfile.exists ->
                loginResult(401, "Invalid credentials. Profile not found.", profs, NoToken, NoProfile)
          [] user # NoId /\ fail # "findById" /\ userProfile.exists
                /\ userProfile.account_status = "suspended" ->
                loginResult(403, "Your account has been suspended.", profs, NoToken, NoProfile)
          [] user # NoId /\ fail # "findById" /\ userProfile.exists
                /\ userProfile.account_status = "pending_verification" ->
                loginResult(403, "Please verify your email before logging in.", profs, NoToken, NoProfile)
          [] user # NoId /\ fail = "update" /\ userProfile.exists
                /\ userProfile.account_status = "active" ->
                loginResult(500, "error", profs, NoToken, NoProfile)
          [] OTHER ->
                loginResult(200, "", [profs EXCEPT ![userProfile.id].last_seen_at = t], appToken,
                            userProfile)

(***************************************************************************)
(* State machine of the lockout guard and the POST /login route.           *)
(***************************************************************************)
NoRun == [email |-> NoEmail, n |-> 0, wrongPassword |-> TRUE]

\* the run of back-to-back failed logins after a POST /login for email;
\* failed: the controller rejected it; wrong: with a wrong password
nextRun(run, email, failed, wrong) ==
    CASE ~failed -> NoRun
      [] failed /\ run.email = email ->
            [email |-> email,
             n |-> IF run.n < maxAttempts THEN run.n + 1 ELSE run.n,
             wrongPassword |-> run.wrongPassword /\ wrong]
      [] OTHER -> [email |-> email, n |-> 1, wrongPassword |-> wrong]

\* the account of an email: no identity, an identity without profile, or an
\* identity whose profile has the given status
AccountStates == {"none", "noProfile", "pending_verification", "active", "suspended"}

InitAccounts ==
    { [e \in Emails |-> IF e = "a@x.com" THEN "active" ELSE "pending_verification"],
      [e \in Emails |-> IF e = "a@x.com" THEN "suspended" ELSE "noProfile"],
      [e \in Emails |-> IF e = "a@x.com" THEN "none" ELSE "active"] }

\* the directory and the profiles table for one assignment of account states
identitiesOf(acct) ==
    [e \in Emails |-> IF acct[e] = "none" THEN NoId
                      ELSE IF e = "a@x.com" THEN 1 ELSE 2]

profilesOf(acct) ==
    [i \in Ids |->
        LET owners == {e \in Emails : identitiesOf(acct)[e] = i}
        IN  IF owners = {} THEN NoProfile
            ELSE LET e == CHOOSE x \in owners : TRUE
                 IN  IF acct[e] = "noProfile" THEN NoProfile
                     ELSE profileRow(i, "learner", acct[e])]

\* the number of rows per id of a profiles table that holds the rows of profs
rowsOf(profs) == [i \in Ids |-> IF profs[i].exists THEN 1 ELSE 0]

\* the OAuth callbacks that can be in flight at once
Callbacks == {1, 2}

\* a callback that has not been entered: pc is the await point it is at
IdleCallback == [pc |-> "idle", email |-> NoEmail, authUser |-> NoId,
                 found |-> FALSE, userProfile |-> NoProfile]

NoCallbacks == [c \in Callbacks |-> IdleCallback]

\* the trackFailedAttempt calls that can be in flight at once
Trackers == {1, 2, 3}

\* a call not made yet: no locals
IdleTracker == [pc |-> "idle", email |-> "", ip |-> "", attempts |-> 0, ipAttempts |-> 0,
                wroteLock |-> FALSE]

NoTrackers == [p \in Trackers |-> IdleTracker]

NoRet == [op |-> "init"]

EmptyCache == [k \in Keys |-> Absent(k)]

Init ==
    /\ now = 0
    /\ cache = EmptyCache
    /\ \E acct \in InitAccounts :
            /\ identities = identitiesOf(acct)
            /\ profiles = profilesOf(acct)
    /\ rowCount = rowsOf(profiles)
    /\ teachers = {}
    /\ issued = {}
    /\ callbacks = NoCallbacks
    /\ trackers = NoTrackers
    /\ failedRun = NoRun
    /\ ret = NoRet

\* the clock advances and the cache store drops the keys whose TTL ran out
Tick ==
    /\ now + TickStep <= MaxTime
    /\ now' = now + TickStep
    /\ cache' = cacheExpire(cache, now + TickStep)
    /\ failedRun' = NoRun
    /\ ret' = [op |-> "tick",
               expired |-> {k \in Keys : cache[k].present /\ cache[k].expiresAt <= now + TickStep}]
    /\ UNCHANGED <<identities, profiles, rowCount, teachers, issued, callbacks, trackers>>

\* a call of trackFailedAttempt (req.loginTracking.trackFailure)
TrackFailedAttempt(email, ip, fail) ==
    LET r == trackFailedAttempt(cache, email, ip, now, fail)
    IN  /\ cache[attemptsKey(email)].value < MaxEmailCount
        /\ cache[ipKey(ip)].value < MaxIpCount
        /\ cache' = r[1]
        /\ ret' = [op |-> "trackFailedAttempt", email |-> email, ip |-> ip,
                   fail |-> fail, result |-> r[2]]
        /\ failedRun' = NoRun
        /\ UNCHANGED <<now, identities, profiles, rowCount, teachers, issued, callbacks, trackers>>

\* a call of clearAttempts (req.loginTracking.clearAttempts)
ClearAttempts(email, ip, fail) ==
    /\ cache' = clearAttempts(cache, email, ip, fail)
    /\ ret' = [op |-> "clearAttempts", email |-> email, ip |-> ip, fail |-> fail,
               removed |-> {k \in Keys : cache[k].present
                                            /\ ~clearAttempts(cache, email, ip, fail)[k].present}]
    /\ failedRun' = NoRun
    /\ UNCHANGED <<now, identities, profiles, rowCount, teachers, issued, callbacks, trackers>>

\* which cache reads of the gate fail
GateFailures == {"none", "getLock", "getIp", "both"}

failsLock(gateFail) == gateFail \in {"getLock", "both"}
failsIp(gateFail) == gateFail \in {"getIp", "both"}

\* the middleware checkLoginAttempts() on its own: it answers 429 or calls
\* next(); afterExpiry: the keys the store dropped in the step just before
CheckLoginAttempts(email, ip, gateFail) ==
    /\ ret' = [op |-> "checkLoginAttempts", email |-> email, ip |-> ip,
               gateFail |-> gateFail,
               gate |-> checkLoginAttempts(cache, email, ip, now,
                                           failsLock(gateFail), failsIp(gateFail)),
               afterExpiry |-> IF ret.op = "tick" THEN ret.expired ELSE {}]
    /\ failedRun' = NoRun
    /\ UNCHANGED <<now, cache, identities, profiles, rowCount, teachers, issued, callbacks, trackers>>

\* POST /login: checkLoginAttempts(), then AuthController.login when the
\* gate calls next()
PostLogin(email, ip, password, gateFail, fail) ==
    LET gate == checkLoginAttempts(cache, email, ip, now,
                                   failsLock(gateFail), failsIp(gateFail))
        res == login(identities, profiles, email, password, now, fail)
        rejected == gate.next /\ res.status \in {401, 403}
    IN  /\ profiles' = IF gate.next THEN res.profiles ELSE profiles
        /\ ret' = [op |-> "login", email |-> email, ip |-> ip,
                   gateFail |-> gateFail,
                   next |-> gate.next,
                   tracking |-> gate.tracking,
                   status |-> IF gate.next THEN res.status ELSE gate.status,
                   error |-> IF gate.next THEN res.error ELSE gate.kind,
                   details |-> gate.details,
                   token |-> IF gate.next THEN res.token ELSE NoToken]
        /\ failedRun' = nextRun(failedRun, email,
                                rejected /\ gateFail = "none" /\ email # NoEmail,
                                password # "correct")
        /\ issued' = IF gate.next /\ res.status = 200 THEN issued \cup {res.token} ELSE issued
        /\ UNCHANGED <<now, cache, identities, rowCount, teachers, callbacks, trackers>>

\* the POST /login route with the guard's tracking calls, at one instant
Next ==
    \/ \E e \in Emails, i \in ClientIPs : TrackFailedAttempt(e, i, "none")
    \/ \E e \in Emails, i \in IPs : ClearAttempts(e, i, "none")
    \/ \E e \in Emails \cup {NoEmail}, i \in ClientIPs, p \in Passwords,
          f \in LoginFailures :
            PostLogin(e, i, p, "none", f)

Spec == Init /\ [][Next]_vars

\* the lockout guard over time, with failing cache reads in the gate
InitGuard ==
    /\ now = 0
    /\ cache = EmptyCache
    /\ identities = identitiesOf([e \in Emails |-> "active"])
    /\ profiles = profilesOf([e \in Emails |-> "active"])
    /\ rowCount = rowsOf(profiles)
    /\ teachers = {}
    /\ issued = {}
    /\ callbacks = NoCallbacks
    /\ trackers = NoTrackers
    /\ failedRun = NoRun
    /\ ret = NoRet

NextGuard ==
    \/ Tick
    \/ \E e \in Emails, i \in ClientIPs : TrackFailedAttempt(e, i, "none")
    \/ \E e \in Emails, i \in ClientIPs : ClearAttempts(e, i, "none")
    \/ \E e \in Emails \cup {NoEmail}, i \in ClientIPs, g \in GateFailures :
            CheckLoginAttempts(e, i, g)

SpecGuard == InitGuard /\ [][NextGuard]_vars

\* isAccountLocked probed on a lock record at instants around its expiry,
\* the record read as the store returns it
ProbeMinutes == 16

ProbeTimes ==
    {t \in {m * 60 + d : m \in 0..ProbeMinutes, d \in {-1, 0, 1}} : t >= 0}

InitLock ==
    /\ now \in ProbeTimes
    /\ \E e \in Emails, n \in maxAttempts..MaxEmailCount, i \in ClientIPs :
            cache = lockAccount(EmptyCache, e, n, i, 0, "none")
    /\ identities = identitiesOf([e \in Emails |-> "active"])
    /\ profiles = profilesOf([e \in Emails |-> "active"])
    /\ rowCount = rowsOf(profiles)
    /\ teachers = {}
    /\ issued = {}
    /\ callbacks = NoCallbacks
    /\ trackers = NoTrackers
    /\ failedRun = NoRun
    /\ ret = NoRet

IsAccountLocked(email, fail) ==
    /\ ret' = [op |-> "isAccountLocked", email |-> email, fail |-> fail,
               result |-> isAccountLocked(cache, email, now, fail)]
    /\ UNCHANGED <<now, cache, identities, profiles, rowCount, teachers, issued, callbacks,
                   failedRun, trackers>>

NextLock == \E e \in Emails, f \in BOOLEAN : IsAccountLocked(e, f)

SpecLock == InitLock /\ [][NextLock]_vars

(***************************************************************************)
(* Identity Reconciler: the verify callback of the Google strategy.        *)
(***************************************************************************)
\* a suspension check that lets every profile through
isSuspended_never(userProfile) == FALSE

\* userProfile.account_status === 'suspended'
isSuspended(userProfile) == userProfile.account_status = "suspended"

\* getUserByEmail that finds no identity
getUserByEmail_neverFinds(ids, email) == NoId

\* supabase.auth.admin.getUserByEmail: the identity id, or NoId
getUserByEmail(ids, email) == ids[email]

UsedIds(ids) == {ids[e] : e \in Emails} \ {NoId}

\* the id the directory gives the next identity it creates
freshId(ids) == CHOOSE i \in Ids \ UsedIds(ids) : \A j \in Ids \ UsedIds(ids) : i <= j

\* supabase.auth.admin.createUser: the directory after creating the identity
createUser(ids, email) == [ids EXCEPT ![email] = freshId(ids)]

\* a create that ignores the status it is given
profileCreate_defaultStatus(profs, id, role, status) ==
    [profs EXCEPT ![id] = profileRow(id, role, "pending_verification")]

\* Profile.create: the status defaults to pending_verification
profileCreate(profs, id, role, status) ==
    [profs EXCEPT ![id] = profileRow(id, role, IF status = "" THEN "pending_verification"
                                                    ELSE status)]

\* Profile.update(id, {last_seen_at})
profileTouch(profs, id, t) == [profs EXCEPT ![id].last_seen_at = t]

OAuthFailures == {"none", "getUserByEmail", "createUser", "findById", "create", "update"}

verifyResult(outcome, id, ids, profs, createdIdentity, createdProfile) ==
    [outcome |-> outcome, id |-> id, identities |-> ids, profiles |-> profs,
     createdIdentity |-> createdIdentity, createdProfile |-> createdProfile]

\* the verify callback: outcome "ok" is done(null, userProfile), "fail" is
\* done(null, false), "error" is done(error, false); fail names the store
\* call that throws or returns an error when it is reached
googleVerify(ids, profs, email, t, fail) ==
    LET existingAuthUser == getUserByEmail(ids, email)
        found == existingAuthUser # NoId
        ids1 == IF found THEN ids ELSE createUser(ids, email)
        authUser == ids1[email]
        needProfile == ~found \/ ~findById(profs, authUser).exists
        profs1 == IF needProfile
                      THEN profileCreate(profs, authUser, "learner", "active")
                      ELSE profs
        userProfile == profs1[authUser]
    IN  CASE email = NoEmail -> verifyResult("fail", NoId, ids, profs, FALSE, FALSE)
          [] email # NoEmail /\ fail = "getUserByEmail" ->
                verifyResult("error", NoId, ids, profs, FALSE, FALSE)
          [] email # NoEmail /\ fail = "findById" /\ found ->
                verifyResult("error", NoId, ids, profs, FALSE, FALSE)
          [] email # NoEmail /\ fail = "createUser" /\ ~found ->
                verifyResult("error", NoId, ids, profs, FALSE, FALSE)
          [] email # NoEmail /\ fail = "create" /\ needProfile ->
                verifyResult("error", NoId, ids1, profs, ~found, FALSE)
          [] email # NoEmail /\ ~found /\ fail \notin {"getUserByEmail", "createUser", "create"}
                /\ profs[authUser].exists ->
                \* the insert hits a row that already has this id and throws
                verifyResult("error", NoId, ids1, profs, TRUE, FALSE)
          [] OTHER ->
                IF isSuspended(userProfile)
                    THEN verifyResult("fail", NoId, ids1, profs1, ~found, needProfile)
                ELSE IF fail = "update"
                    THEN verifyResult("error", NoId, ids1, profs1, ~found, needProfile)
                ELSE verifyResult("ok", userProfile.id, ids1,
                                  profileTouch(profs1, authUser, t), ~found, needProfile)

NoPrev == [id |-> NoId, created |-> FALSE, healed |-> FALSE]

\* AuthController.googleLogin: the claims of the token put in the redirect;
\* the profiles row carries no email, so userProfile.email is undefined
googleLogin(userProfile) == generateToken(userProfile.id, NoEmail, userProfile.role)

\* GET /google/callback: the strategy's verify callback for the given Google
\* e-mail, then googleLogin when the callback ends with done(null, userProfile)
\* (done(null, false) redirects to /login, done(error) goes to the error
\* handler).  prev tells whether the operation just before was a successful
\* reconciliation of the same e-mail, and what it returned.
GoogleVerify(email, fail) ==
    LET r == googleVerify(identities, profiles, email, now, fail)
    IN  /\ identities' = r.identities
        /\ profiles' = r.profiles
        /\ rowCount' = [i \in Ids |->
                            IF r.createdProfile /\ i = r.identities[email]
                                THEN rowCount[i] + 1 ELSE rowCount[i]]
        /\ issued' = IF r.outcome = "ok"
                         THEN issued \cup {googleLogin(r.profiles[r.id])}
                         ELSE issued
        /\ ret' = [op |-> "google", email |-> email, fail |-> fail,
                   outcome |-> r.outcome, id |-> r.id,
                   token |-> IF r.outcome = "ok" THEN googleLogin(r.profiles[r.id])
                                                 ELSE NoToken,
                   createdIdentity |-> r.createdIdentity,
                   createdProfile |-> r.createdProfile,
                   prev |-> IF ret.op = "google" /\ ret.email = email
                                /\ ret.outcome = "ok"
                                THEN [id |-> ret.id,
                                      created |-> ret.createdIdentity \/ ret.createdProfile,
                                      healed |-> ~ret.createdIdentity /\ ret.createdProfile]
                                ELSE NoPrev]
        /\ UNCHANGED <<now, cache, teachers, callbacks, failedRun, trackers>>

InitOAuth ==
    /\ now = 0
    /\ cache = EmptyCache
    /\ \E acct \in [Emails -> AccountStates] :
            /\ identities = identitiesOf(acct)
            /\ profiles = profilesOf(acct)
    /\ rowCount = rowsOf(profiles)
    /\ teachers = {}
    /\ issued = {}
    /\ callbacks = NoCallbacks
    /\ trackers = NoTrackers
    /\ failedRun = NoRun
    /\ ret = NoRet

NextOAuth == \E e \in Emails \cup {NoEmail}, f \in OAuthFailures : GoogleVerify(e, f)

SpecOAuth == InitOAuth /\ [][NextOAuth]_vars

(***************************************************************************)
(* Two verify callbacks in flight: each one suspends at its awaits         *)
(* (getUserByEmail, Profile.findById, createUser, Profile.create,          *)
(* Profile.update) and the other may run in between.                       *)
(***************************************************************************)
\* an insert into a table without primary key
profileInsert_noPrimaryKey(profs, rows, id, role, status) ==
    [error |-> FALSE,
     profiles |-> profileCreate(profs, id, role, status),
     rowCount |-> [rows EXCEPT ![id] = @ + 1]]

\* the insert of Profile.create against the profiles table, whose primary
\* key is id: a second row with the same id is refused
profileInsert(profs, rows, id, role, status) ==
    IF rows[id] >= 1
        THEN [error |-> TRUE, profiles |-> profs, rowCount |-> rows]
        ELSE [error |-> FALSE,
              profiles |-> profileCreate(profs, id, role, status),
              rowCount |-> [rows EXCEPT ![id] = @ + 1]]

callbackRet(c, step, outcome, duplicate) ==
    [op |-> "callback", callback |-> c, email |-> callbacks[c].email, step |-> step,
     outcome |-> outcome, duplicate |-> duplicate]

\* the callback is entered with the e-mail of the Google profile
EnterCallback(c, email) ==
    /\ callbacks[c].pc = "idle"
    /\ callbacks' = [callbacks EXCEPT ![c] = [IdleCallback EXCEPT !.pc = "getUserByEmail",
                                                                !.email = email]]
    /\ ret' = [op |-> "callback", callback |-> c, email |-> email, step |-> "enter",
               outcome |-> "", duplicate |-> FALSE]
    /\ UNCHANGED <<now, cache, identities, profiles, rowCount, teachers, issued, failedRun, trackers>>

\* await supabase.auth.admin.getUserByEmail(email)
CallbackGetUser(c) ==
    LET existingAuthUser == getUserByEmail(identities, callbacks[c].email)
    IN  /\ callbacks[c].pc = "getUserByEmail"
        /\ callbacks' = [callbacks EXCEPT
                ![c].authUser = existingAuthUser,
                ![c].found = existingAuthUser # NoId,
                ![c].pc = IF existingAuthUser # NoId THEN "findById" ELSE "createUser"]
        /\ ret' = callbackRet(c, "getUserByEmail", "", FALSE)
        /\ UNCHANGED <<now, cache, identities, profiles, rowCount, teachers, issued,
                       failedRun, trackers>>

\* await Profile.findById(authUser.id), then the suspension check when the
\* profile is there
CallbackFindById(c) ==
    LET userProfile == findById(profiles, callbacks[c].authUser)
    IN  /\ callbacks[c].pc = "findById"
        /\ callbacks' = [callbacks EXCEPT ![c] =
                IF ~userProfile.exists THEN [@ EXCEPT !.pc = "create"]
                ELSE IF isSuspended(userProfile) THEN IdleCallback
                ELSE [@ EXCEPT !.pc = "update", !.userProfile = userProfile]]
        /\ ret' = callbackRet(c, "findById",
                              IF userProfile.exists /\ isSuspended(userProfile)
                                  THEN "fail" ELSE "",
                              FALSE)
        /\ UNCHANGED <<now, cache, identities, profiles, rowCount, teachers, issued,
                       failedRun, trackers>>

\* await supabase.auth.admin.createUser: createError when the directory
\* already has an identity for the e-mail
CallbackCreateUser(c) ==
    LET email == callbacks[c].email
        createError == identities[email] # NoId
    IN  /\ callbacks[c].pc = "createUser"
        /\ identities' = IF createError THEN identities ELSE createUser(identities, email)
        /\ callbacks' = [callbacks EXCEPT ![c] =
                IF createError THEN IdleCallback
                ELSE [@ EXCEPT !.pc = "create", !.authUser = freshId(identities)]]
        /\ ret' = callbackRet(c, "createUser", IF createError THEN "error" ELSE "",
                              createError)
        /\ UNCHANGED <<now, cache, profiles, rowCount, teachers, issued, failedRun, trackers>>

\* await Profile.create({id: authUser.id, role: 'learner', account_status:
\* 'active'}); throws: the store call fails for another reason than the key
CallbackCreate(c, throws) ==
    LET id == callbacks[c].authUser
        r == profileInsert(profiles, rowCount, id, "learner", "active")
        failed == throws \/ r.error
    IN  /\ callbacks[c].pc = "create"
        /\ profiles' = IF failed THEN profiles ELSE r.profiles
        /\ rowCount' = IF throws THEN rowCount ELSE r.rowCount
        /\ callbacks' = [callbacks EXCEPT ![c] =
                IF failed THEN IdleCallback
                ELSE [@ EXCEPT !.pc = "update", !.userProfile = r.profiles[id]]]
        /\ ret' = callbackRet(c, "create", IF failed THEN "error" ELSE "",
                              ~throws /\ r.error)
        /\ UNCHANGED <<now, cache, identities, teachers, issued, failedRun, trackers>>

\* await Profile.update(userProfile.id, {last_seen_at}), done(null,
\* userProfile) and googleLogin
CallbackUpdate(c) ==
    LET userProfile == callbacks[c].userProfile
    IN  /\ callbacks[c].pc = "update"
        /\ profiles' = profileTouch(profiles, userProfile.id, now)
        /\ issued' = issued \cup {googleLogin(userProfile)}
        /\ callbacks' = [callbacks EXCEPT ![c] = IdleCallback]
        /\ ret' = callbackRet(c, "update", "ok", FALSE)
        /\ UNCHANGED <<now, cache, identities, rowCount, teachers, failedRun, trackers>>

NextOAuthRace ==
    \/ \E c \in Callbacks, e \in Emails : EnterCallback(c, e)
    \/ \E c \in Callbacks : CallbackGetUser(c)
    \/ \E c \in Callbacks : CallbackFindById(c)
    \/ \E c \in Callbacks : CallbackCreateUser(c)
    \/ \E c \in Callbacks, throws \in BOOLEAN : CallbackCreate(c, throws)
    \/ \E c \in Callbacks : CallbackUpdate(c)

SpecOAuthRace == InitOAuth /\ [][NextOAuthRace]_vars

(***************************************************************************)
(* Sessions: the controller's handlers, the admin's ban and unban, and the *)
(* JWT strategy on an authenticated request.                               *)
(***************************************************************************)
\* AuthController.login on its own (the gate has called next())
Login(email, password, fail) ==
    LET res == login(identities, profiles, email, password, now, fail)
    IN  /\ profiles' = res.profiles
        /\ issued' = IF res.status = 200 THEN issued \cup {res.token} ELSE issued
        /\ ret' = [op |-> "AuthController.login", email |-> email, password |-> password,
                   fail |-> fail, status |-> res.status, error |-> res.error,
                   token |-> res.token, user |-> res.user]
        /\ UNCHANGED <<now, cache, identities, rowCount, teachers, callbacks, failedRun, trackers>>

\* the database trigger on the directory's users table: when it runs it
\* inserts the profile of the new identity, with the role stashed at sign-up
\* and the default status
provisionProfile(profs, id, role, ran) ==
    IF ran THEN profileCreate(profs, id, role, "") ELSE profs

RegisterFailures == {"none", "signUp", "findById", "createTeacherInfo"}

registerResult(status, error, ids, profs, teach, token, user) ==
    [status |-> status, error |-> error, identities |-> ids, profiles |-> profs,
     teachers |-> teach, token |-> token, user |-> user]

\* a register without the check that the profile is there
register_noFailsafe(ids, profs, teach, email, role, ran, fail) ==
    LET registered == ids[email] # NoId
        ids1 == createUser(ids, email)
        newAuthUser == ids1[email]
        profs1 == provisionProfile(profs, newAuthUser, role, ran)
        newProfile == findById(profs1, newAuthUser)
    IN  IF registered
            THEN registerResult(409, "Email already registered", ids, profs, teach,
                                NoToken, NoProfile)
            ELSE registerResult(201, "", ids1, profs1,
                                IF role = "teacher" THEN teach \cup {newAuthUser} ELSE teach,
                                generateToken(newAuthUser, email, role), newProfile)

\* AuthController.register: the response and the stores after it.  ran: the
\* trigger created the profile; fail: the call that reports another error
\* or throws, which goes to next(error), reported as status 500 "error"
register(ids, profs, teach, email, role, ran, fail) ==
    LET registered == ids[email] # NoId
        ids1 == createUser(ids, email)
        newAuthUser == ids1[email]
        profs1 == provisionProfile(profs, newAuthUser, role, ran)
        newProfile == findById(profs1, newAuthUser)
        appToken == generateToken(newProfile.id, email, newProfile.role)
    IN  CASE registered ->
                registerResult(409, "Email already registered", ids, profs, teach,
                               NoToken, NoProfile)
          [] ~registered /\ fail = "signUp" ->
                registerResult(500, "error", ids, profs, teach, NoToken, NoProfile)
          [] ~registered /\ fail = "findById" ->
                registerResult(500, "error", ids1, profs1, teach, NoToken, NoProfile)
          [] ~registered /\ fail \notin {"signUp", "findById"} /\ ~newProfile.exists ->
                registerResult(500, "Failed to initialize user profile.", ids1, profs1,
                               teach, NoToken, NoProfile)
          [] ~registered /\ fail = "createTeacherInfo" /\ newProfile.exists
                /\ role = "teacher" ->
                registerResult(500, "error", ids1, profs1, teach, NoToken, NoProfile)
          [] OTHER ->
                registerResult(201, "", ids1, profs1,
                               IF role = "teacher" THEN teach \cup {newProfile.id} ELSE teach,
                               appToken, newProfile)

\* POST /register
Register(email, role, ran, fail) ==
    LET res == register(identities, profiles, teachers, email, role, ran, fail)
    IN  /\ identities' = res.identities
        /\ profiles' = res.profiles
        /\ rowCount' = [i \in Ids |->
                            IF res.profiles[i].exists /\ ~profiles[i].exists
                                THEN rowCount[i] + 1 ELSE rowCount[i]]
        /\ teachers' = res.teachers
        /\ issued' = IF res.status = 201 THEN issued \cup {res.token} ELSE issued
        /\ ret' = [op |-> "register", email |-> email, role |-> role, ran |-> ran,
                   fail |-> fail, status |-> res.status, error |-> res.error,
                   token |-> res.token, user |-> res.user,
                   registered |-> identities[email] # NoId]
        /\ UNCHANGED <<now, cache, callbacks, failedRun, trackers>>

\* what a call of the credential directory does: it returns without error,
\* returns {error}, or throws
DirectoryOutcomes == {"ok", "error", "throws"}

response(status, success, message) ==
    [status |-> status, success |-> success, message |-> message]

\* next(error): the error handler's response
ErrorResponse == response(500, FALSE, "error")

\* a forgotPassword that passes the directory's error on
forgotPassword_passesError(email, outcome) ==
    IF outcome = "ok"
        THEN response(200, TRUE,
                "If an account with that email exists, a password reset link has been sent.")
        ELSE ErrorResponse

\* AuthController.forgotPassword: the directory's {error} is logged only
forgotPassword(email, outcome) ==
    IF outcome = "throws"
        THEN ErrorResponse
        ELSE response(200, TRUE,
                "If an account with that email exists, a password reset link has been sent.")

\* AuthController.resendVerificationEmail: if (error) throw error
resendVerificationEmail(email, outcome) ==
    IF outcome = "ok"
        THEN response(200, TRUE, "Verification email resent successfully.")
        ELSE ErrorResponse

\* POST /forgot-password
ForgotPassword(email, outcome) ==
    /\ ret' = [op |-> "forgotPassword", email |-> email, outcome |-> outcome,
               response |-> forgotPassword(email, outcome)]
    /\ UNCHANGED <<now, cache, identities, profiles, rowCount, teachers, issued, callbacks,
                   failedRun, trackers>>

\* POST /resend-verification
ResendVerificationEmail(email, outcome) ==
    /\ ret' = [op |-> "resendVerificationEmail", email |-> email, outcome |-> outcome,
               response |-> resendVerificationEmail(email, outcome)]
    /\ UNCHANGED <<now, cache, identities, profiles, rowCount, teachers, issued, callbacks,
                   failedRun, trackers>>

adminResult(status, profs) == [status |-> status, profiles |-> profs]

\* AdminController.banAccount
banAccount(profs, userId) ==
    LET targetProfile == findById(profs, userId)
    IN  IF ~targetProfile.exists THEN adminResult(404, profs)
        ELSE IF targetProfile.role = "admin" THEN adminResult(403, profs)
        ELSE adminResult(200, [profs EXCEPT ![userId].account_status = "suspended"])

\* AdminController.unbanAccount: Profile.update throws when no row matches
unbanAccount(profs, userId) ==
    IF ~findById(profs, userId).exists THEN adminResult(500, profs)
    ELSE adminResult(200, [profs EXCEPT ![userId].account_status = "active"])

BanAccount(userId) ==
    LET res == banAccount(profiles, userId)
    IN  /\ profiles' = res.profiles
        /\ ret' = [op |-> "banAccount", userId |-> userId, status |-> res.status]
        /\ UNCHANGED <<now, cache, identities, rowCount, teachers, issued, callbacks,
                       failedRun, trackers>>

UnbanAccount(userId) ==
    LET res == unbanAccount(profiles, userId)
    IN  /\ profiles' = res.profiles
        /\ ret' = [op |-> "unbanAccount", userId |-> userId, status |-> res.status]
        /\ UNCHANGED <<now, cache, identities, rowCount, teachers, issued, callbacks,
                       failedRun, trackers>>

jwtResult(outcome, message, user) ==
    [outcome |-> outcome, message |-> message, user |-> user]

\* a strategy that trusts the claims of the token
jwtVerify_trustsToken(profs, payload, throws) ==
    IF payload.userId = NoId \/ payload.email = NoEmail
        THEN jwtResult("fail", "Invalid token payload", NoProfile)
        ELSE jwtResult("ok", "", profileRow(payload.userId, payload.role, "active"))

\* the verify callback of the JWT strategy on the payload of a token whose
\* signature and expiry passport-jwt has accepted; "ok" is done(null,
\* profile) with req.user = profile, "fail" is done(null, false), "error" is
\* done(error, false) when Profile.findById throws
jwtVerify(profs, payload, throws) ==
    LET profile == findById(profs, payload.userId)
    IN  CASE payload.userId = NoId \/ payload.email = NoEmail ->
                jwtResult("fail", "Invalid token payload", NoProfile)
          [] payload.userId # NoId /\ payload.email # NoEmail /\ throws ->
                jwtResult("error", "", NoProfile)
          [] payload.userId # NoId /\ payload.email # NoEmail /\ ~throws
                /\ ~profile.exists ->
                jwtResult("fail", "User not found", NoProfile)
          [] payload.userId # NoId /\ payload.email # NoEmail /\ ~throws
                /\ profile.exists /\ profile.account_status = "suspended" ->
                jwtResult("fail", "Account is suspended", NoProfile)
          [] OTHER -> jwtResult("ok", "", profile)

\* a request that carries a token this server handed out
Authenticate(payload, throws) ==
    /\ payload \in issued
    /\ ret' = [op |-> "authenticate", payload |-> payload, throws |-> throws,
               result |-> jwtVerify(profiles, payload, throws)]
    /\ UNCHANGED <<now, cache, identities, profiles, rowCount, teachers, issued, callbacks,
                   failedRun, trackers>>

\* the initial table with the given profile, if there, holding the role
withRole(profs, id, role) ==
    [i \in Ids |-> IF i = id /\ profs[i].exists THEN [profs[i] EXCEPT !.role = role]
                   ELSE profs[i]]

InitSession ==
    /\ now = 0
    /\ cache = EmptyCache
    /\ \E acct \in InitAccounts :
            /\ identities = identitiesOf(acct)
            /\ profiles = withRole(profilesOf(acct), 2, "admin")
    /\ rowCount = rowsOf(profiles)
    /\ teachers = {}
    /\ issued = {}
    /\ callbacks = NoCallbacks
    /\ trackers = NoTrackers
    /\ failedRun = NoRun
    /\ ret = NoRet

NextSession ==
    \/ \E e \in Emails, p \in Passwords, f \in LoginFailures : Login(e, p, f)
    \/ \E e \in Emails, r \in {"learner", "teacher"}, ran \in BOOLEAN,
          f \in RegisterFailures : Register(e, r, ran, f)
    \/ \E e \in Emails, o \in DirectoryOutcomes : ForgotPassword(e, o)
    \/ \E e \in Emails, o \in DirectoryOutcomes : ResendVerificationEmail(e, o)
    \/ \E e \in Emails : GoogleVerify(e, "none")
    \/ \E i \in Ids : BanAccount(i)
    \/ \E i \in Ids : UnbanAccount(i)
    \/ \E t \in issued, throws \in BOOLEAN : Authenticate(t, throws)

SpecSession == InitSession /\ [][NextSession]_vars

(***************************************************************************)
(* trackFailedAttempt calls in flight together within one attempt window:  *)
(* each call suspends at its awaits (the increment of the email counter,   *)
(* the increment of the IP counter, the write of the lock record) and the  *)
(* calls interleave there.                                                 *)
(***************************************************************************)
\* failed attempts already counted for the first email when the calls start
PriorFailures == 3

PriorAttempts(email) == IF email = "a@x.com" THEN PriorFailures ELSE 0

\* the cache after n back-to-back failed attempts of one email from one IP
RECURSIVE afterFailures(_, _, _, _, _)
afterFailures(c, email, ip, t, n) ==
    IF n = 0
        THEN c
        ELSE afterFailures(trackFailedAttempt(c, email, ip, t, "none")[1], email, ip, t, n - 1)

InitTrackRace ==
    /\ now = 0
    /\ cache = afterFailures(EmptyCache, "a@x.com", "10.0.0.1", 0, PriorFailures)
    /\ identities = identitiesOf([e \in Emails |-> "active"])
    /\ profiles = profilesOf([e \in Emails |-> "active"])
    /\ rowCount = rowsOf(profiles)
    /\ teachers = {}
    /\ issued = {}
    /\ callbacks = NoCallbacks
    /\ trackers = NoTrackers
    /\ failedRun = NoRun
    /\ ret = NoRet

trackerRet(p, step, returned, result) ==
    [op |-> "tracker", tracker |-> p, step |-> step, returned |-> returned,
     result |-> result]

\* the object a call returns once its awaits are through
trackerResult(tr) ==
    trackResult(tr.attempts, tr.ipAttempts, MathMax(0, maxAttempts - tr.attempts),
                tr.attempts >= maxAttempts)

\* const attempts = await cacheService.incr(key, this.attemptWindow)
TrackerIncrEmail(p, email, ip) ==
    LET c1 == cacheIncr(cache, attemptsKey(email), attemptWindow, now)
        tr == [IdleTracker EXCEPT !.pc = "incrIp", !.email = email, !.ip = ip,
                                  !.attempts = c1[attemptsKey(email)].value]
    IN  /\ trackers[p].pc = "idle"
        /\ cache' = c1
        /\ trackers' = [trackers EXCEPT ![p] = tr]
        /\ ret' = trackerRet(p, "incrEmail", FALSE, trackerResult(tr))
        /\ UNCHANGED <<now, identities, profiles, rowCount, teachers, issued, callbacks,
                       failedRun>>

\* const ipAttempts = await cacheService.incr(ipKey, this.attemptWindow); the
\* call returns here unless the count it saw has reached maxAttempts
TrackerIncrIp(p) ==
    LET c2 == cacheIncr(cache, ipKey(trackers[p].ip), attemptWindow, now)
        locks == trackers[p].attempts >= maxAttempts
        tr == [trackers[p] EXCEPT !.pc = IF locks THEN "lockAccount" ELSE "done",
                                  !.ipAttempts = c2[ipKey(trackers[p].ip)].value]
    IN  /\ trackers[p].pc = "incrIp"
        /\ cache' = c2
        /\ trackers' = [trackers EXCEPT ![p] = tr]
        /\ ret' = trackerRet(p, "incrIp", ~locks, trackerResult(tr))
        /\ UNCHANGED <<now, identities, profiles, rowCount, teachers, issued, callbacks,
                       failedRun>>

\* await this.lockAccount(email, attempts, ipAddress), then the return
TrackerLockAccount(p) ==
    LET tr == [trackers[p] EXCEPT !.pc = "done", !.wroteLock = TRUE]
    IN  /\ trackers[p].pc = "lockAccount"
        /\ cache' = lockAccount(cache, tr.email, tr.attempts, tr.ip, now, "none")
        /\ trackers' = [trackers EXCEPT ![p] = tr]
        /\ ret' = trackerRet(p, "lockAccount", TRUE, trackerResult(tr))
        /\ UNCHANGED <<now, identities, profiles, rowCount, teachers, issued, callbacks,
                       failedRun>>

NextTrackRace ==
    \/ \E p \in Trackers, e \in Emails, i \in IPs : TrackerIncrEmail(p, e, i)
    \/ \E p \in Trackers : TrackerIncrIp(p)
    \/ \E p \in Trackers : TrackerLockAccount(p)

SpecTrackRace == InitTrackRace /\ [][NextTrackRace]_vars

(***************************************************************************)
(* The guard used one request at a time through req.loginTracking: the     *)
(* gate runs first, and trackFailure / clearAttempts exist only on a       *)
(* request the gate let through with its reads done.                       *)
(***************************************************************************)
MaxWindowTicks == 4      \* the clock of this run advances at most MaxWindowTicks times

\* req.loginTracking.trackFailure() of a request with this email and IP;
\* a request answered 429 carries no tracking and changes nothing
trackFailure_ungated(c, email, ip, t) == trackFailedAttempt(c, email, ip, t, "none")

trackFailure(c, email, ip, t) ==
    IF checkLoginAttempts(c, email, ip, t, FALSE, FALSE).tracking
        THEN trackFailedAttempt(c, email, ip, t, "none")
        ELSE <<c, trackResult(0, 0, maxAttempts, FALSE)>>

\* req.loginTracking.clearAttempts() of a request with this email and IP
clearTracking(c, email, ip, t) ==
    IF checkLoginAttempts(c, email, ip, t, FALSE, FALSE).tracking
        THEN clearAttempts(c, email, ip, "none")
        ELSE c

WindowTick ==
    /\ now + TickStep <= MaxWindowTicks * TickStep
    /\ now' = now + TickStep
    /\ cache' = cacheExpire(cache, now + TickStep)
    /\ failedRun' = NoRun
    /\ ret' = [op |-> "tick",
               expired |-> {k \in Keys : cache[k].present /\ cache[k].expiresAt <= now + TickStep}]
    /\ UNCHANGED <<identities, profiles, rowCount, teachers, issued, callbacks, trackers>>

\* a login request whose credential check fails when the gate lets it through
LoginFailure(email, ip) ==
    LET r == trackFailure(cache, email, ip, now)
    IN  /\ cache[attemptsKey(email)].value < MaxEmailCount
        /\ cache[ipKey(ip)].value < MaxIpCount
        /\ cache' = r[1]
        /\ ret' = [op |-> "loginFailure", email |-> email, ip |-> ip,
                   gate |-> checkLoginAttempts(cache, email, ip, now, FALSE, FALSE),
                   result |-> r[2],
                   afterExpiry |-> IF ret.op = "tick" THEN ret.expired ELSE {}]
        /\ failedRun' = NoRun
        /\ UNCHANGED <<now, identities, profiles, rowCount, teachers, issued, callbacks,
                       trackers>>

\* a login request whose credential check succeeds when the gate lets it through
LoginSuccess(email, ip) ==
    /\ cache' = clearTracking(cache, email, ip, now)
    /\ ret' = [op |-> "loginSuccess", email |-> email, ip |-> ip,
               gate |-> checkLoginAttempts(cache, email, ip, now, FALSE, FALSE)]
    /\ failedRun' = NoRun
    /\ UNCHANGED <<now, identities, profiles, rowCount, teachers, issued, callbacks,
                   trackers>>

NextWindow ==
    \/ WindowTick
    \/ \E e \in Emails, i \in ClientIPs : LoginFailure(e, i)
    \/ \E e \in Emails, i \in ClientIPs : LoginSuccess(e, i)

SpecWindow == InitGuard /\ [][NextWindow]_vars

(***************************************************************************)
(* The guard's two writing operations called one after the other at one    *)
(* instant, with each of their cache and notification calls allowed to     *)
(* fail.  The failures come from one IP, counted up to MaxEmailCount;      *)
(* another IP has failed for the second email before.                      *)
(***************************************************************************)
InitTrack ==
    /\ now = 0
    /\ cache = afterFailures(EmptyCache, "b@x.com", "10.0.0.2", 0, PriorFailures)
    /\ identities = identitiesOf([e \in Emails |-> "active"])
    /\ profiles = profilesOf([e \in Emails |-> "active"])
    /\ rowCount = rowsOf(profiles)
    /\ teachers = {}
    /\ issued = {}
    /\ callbacks = NoCallbacks
    /\ trackers = NoTrackers
    /\ failedRun = NoRun
    /\ ret = NoRet

NextTrack ==
    \/ \E e \in Emails, i \in ClientIPs, f \in TrackFailures :
            /\ cache[ipKey(i)].value < MaxEmailCount
            /\ TrackFailedAttempt(e, i, f)
    \/ \E e \in Emails, i \in IPs, f \in ClearFailures : ClearAttempts(e, i, f)

SpecTrack == InitTrack /\ [][NextTrack]_vars

(***************************************************************************)
(* Profile rows under the handlers that write them: the auth handlers,     *)
(* the admin handlers and the self-service handlers of the profile routes. *)
(***************************************************************************)
Undefined == "undefined"     \* a field req.body does not carry

\* Profile.update(id, updates) on role and account_status: an undefined
\* field is not sent; .single() makes it throw when no row matches
profileUpdate(profs, id, role, status) ==
    [profs EXCEPT ![id].role = IF role = Undefined THEN @ ELSE role,
                  ![id].account_status = IF status = Undefined THEN @ ELSE status]

\* AdminController.updateUserByAdmin
updateUserByAdmin(profs, userId, role, status) ==
    IF ~findById(profs, userId).exists THEN adminResult(500, profs)
    ELSE adminResult(200, profileUpdate(profs, userId, role, status))

\* AdminController.reviewTeacherRequest: updateTeacherVerification throws
\* when the teacher has no teachers_info record
reviewTeacherRequest(profs, teach, teacherId, approved) ==
    IF teacherId \notin teach \/ ~findById(profs, teacherId).exists
        THEN adminResult(500, profs)
    ELSE IF approved THEN adminResult(200, profileUpdate(profs, teacherId, "teacher", Undefined))
    ELSE adminResult(200, profs)

\* ProfileController.updateMyProfile: writes display_name only
updateMyProfile(profs, userId) ==
    IF ~findById(profs, userId).exists THEN adminResult(500, profs)
    ELSE adminResult(200, profileUpdate(profs, userId, Undefined, Undefined))

\* ProfileController.requestAccountDeletion
requestAccountDeletion(profs, userId) ==
    IF ~findById(profs, userId).exists THEN adminResult(500, profs)
    ELSE adminResult(200, profileUpdate(profs, userId, Undefined, "suspended"))

UpdateUserByAdmin(userId, role, status) ==
    LET res == updateUserByAdmin(profiles, userId, role, status)
    IN  /\ profiles' = res.profiles
        /\ ret' = [op |-> "updateUserByAdmin", userId |-> userId, role |-> role,
                   account_status |-> status, status |-> res.status]
        /\ UNCHANGED <<now, cache, identities, rowCount, teachers, issued, callbacks,
                       trackers, failedRun>>

ReviewTeacherRequest(teacherId, approved) ==
    LET res == reviewTeacherRequest(profiles, teachers, teacherId, approved)
    IN  /\ profiles' = res.profiles
        /\ ret' = [op |-> "reviewTeacherRequest", userId |-> teacherId,
                   approved |-> approved, status |-> res.status]
        /\ UNCHANGED <<now, cache, identities, rowCount, teachers, issued, callbacks,
                       trackers, failedRun>>

\* userId is req.user.id of the authenticated request
UpdateMyProfile(userId) ==
    LET res == updateMyProfile(profiles, userId)
    IN  /\ profiles' = res.profiles
        /\ ret' = [op |-> "updateMyProfile", userId |-> userId, status |-> res.status]
        /\ UNCHANGED <<now, cache, identities, rowCount, teachers, issued, callbacks,
                       trackers, failedRun>>

RequestAccountDeletion(userId) ==
    LET res == requestAccountDeletion(profiles, userId)
    IN  /\ profiles' = res.profiles
        /\ ret' = [op |-> "requestAccountDeletion", userId |-> userId,
                   status |-> res.status]
        /\ UNCHANGED <<now, cache, identities, rowCount, teachers, issued, callbacks,
                       trackers, failedRun>>

\* the body of PUT /profiles/:userId: nothing, a valid change, or a role or
\* a status the schema does not know
AdminUpdates == {<<Undefined, Undefined>>, <<"teacher", "active">>,
                 <<"superuser", Undefined>>, <<Undefined, "deleted">>}

MaxTokens == 1           \* session tokens handed out in one run

\* the first email is not registered yet, the second is an active admin
InitProfiles ==
    /\ now = 0
    /\ cache = EmptyCache
    /\ identities = identitiesOf([e \in Emails |-> IF e = "a@x.com" THEN "none" ELSE "active"])
    /\ profiles = withRole(profilesOf([e \in Emails |->
                                IF e = "a@x.com" THEN "none" ELSE "active"]), 2, "admin")
    /\ rowCount = rowsOf(profiles)
    /\ teachers = {}
    /\ issued = {}
    /\ callbacks = NoCallbacks
    /\ trackers = NoTrackers
    /\ failedRun = NoRun
    /\ ret = NoRet

\* the handlers that hand out a token run until MaxTokens tokens are out
NextProfiles ==
    \/ \E e \in Emails :
            Cardinality(issued) < MaxTokens /\ Login(e, "correct", "none")
    \/ \E e \in Emails, r \in {"learner", "teacher"} :
            Cardinality(issued) < MaxTokens /\ Register(e, r, TRUE, "none")
    \/ \E e \in Emails :
            Cardinality(issued) < MaxTokens /\ GoogleVerify(e, "none")
    \/ \E i \in Ids : BanAccount(i)
    \/ \E i \in Ids : UnbanAccount(i)
    \/ \E i \in Ids, approved \in BOOLEAN : ReviewTeacherRequest(i, approved)
    \/ \E i \in Ids, u \in AdminUpdates : UpdateUserByAdmin(i, u[1], u[2])
    \/ \E i \in Ids : UpdateMyProfile(i)
    \/ \E i \in Ids : RequestAccountDeletion(i)

SpecProfiles == InitProfiles /\ [][NextProfiles]_vars

(***************************************************************************)
(* Properties.                                                             *)
(***************************************************************************)
HasLock(c, email) == c[lockKey(email)].present
HasCounter(c, email) == c[attemptsKey(email)].present

\* the last step was a POST /login of a known email that passed the gate and
\* was rejected by AuthController.login with 401 or 403
LoginRejected(r) ==
    /\ r.op = "login"
    /\ r.email \in Emails
    /\ r.next
    /\ r.status \in {401, 403}

\* C1: five consecutive failed POST /login requests for an email leave a lock
\* record for that email, and the request after them is answered 429
\* AccountLocked by the gate, without reaching the credential check.
C1_FiveFailedLoginsLock ==
    [][ /\ (failedRun'.n >= maxAttempts => HasLock(cache', failedRun'.email))
        /\ (failedRun.n >= maxAttempts /\ ret'.op = "login"
                /\ ret'.email = failedRun.email)
              => (ret'.status = 429 /\ ret'.error = "AccountLocked" /\ ~ret'.next) ]_vars

\* C2: a successful login of an email whose failed-attempt counter holds
\* N < maxAttempts deletes that counter.
C2_SuccessfulLoginClearsCounter ==
    [][ (ret'.op = "login" /\ ret'.status = 200
            /\ HasCounter(cache, ret'.email)
            /\ cache[attemptsKey(ret'.email)].value < maxAttempts)
          => ~HasCounter(cache', ret'.email) ]_vars

\* C3: every login that passes the gate and is rejected by the controller
\* increments the email-scoped and the IP-scoped counter by one.
C3_RejectedLoginIsTracked ==
    [][ LoginRejected(ret')
          => /\ cache'[attemptsKey(ret'.email)].value
                    = cache[attemptsKey(ret'.email)].value + 1
             /\ cache'[ipKey(ret'.ip)].value = cache[ipKey(ret'.ip)].value + 1 ]_vars

\* C8: after five wrong-password attempts for one email at one instant, the
\* next login attempt, with any password, is answered 429 with
\* remainingMinutes between 1 and 15.
C8_SixthAttemptRemainingMinutes ==
    [][ (failedRun.n >= maxAttempts /\ failedRun.wrongPassword
            /\ ret'.op = "login" /\ ret'.email = failedRun.email)
          => (ret'.status = 429 /\ ret'.details.remainingMinutes \in 1..15) ]_vars

\* C4: whenever a lock record exists for the email of a login request (and
\* the gate's cache read succeeds), the gate answers 429 AccountLocked with
\* the lock's reason and remainingMinutes >= 1 and does not call next():
\* no credential check, no token, no profile update.
C4_LockedGateRejects ==
    [][ (ret'.op = "login" /\ ret'.email \in Emails /\ ret'.gateFail = "none"
            /\ HasLock(cache, ret'.email))
          => /\ ret'.status = 429
             /\ ret'.error = "AccountLocked"
             /\ ~ret'.next
             /\ ret'.details.isLocked
             /\ ret'.details.reason = cache[lockKey(ret'.email)].value.reason
             /\ ret'.details.remainingMinutes >= 1
             /\ ret'.token = NoToken
             /\ profiles' = profiles ]_vars

C4_Witness ==
    /\ ret.op = "login"
    /\ ret.email \in Emails
    /\ HasLock(cache, ret.email)
    /\ ret.status = 429
    /\ ret.error = "AccountLocked"
    /\ identities[ret.email] # NoId
    /\ findById(profiles, identities[ret.email]).account_status = "active"

\* C6: with the IP-scoped counter of the requesting address at 2 * maxAttempts
\* or more, the gate answers 429 for every email, also one without counter
\* and lock record; below that and without lock record it calls next().
C6_IpCutoff ==
    [][ (ret'.op = "login" /\ ret'.email \in Emails /\ ret'.gateFail = "none")
          => LET n == cache[ipKey(ret'.ip)].value
             IN  /\ n >= 2 * maxAttempts => (ret'.status = 429 /\ ~ret'.next)
                 /\ (n >= 2 * maxAttempts /\ ~HasLock(cache, ret'.email))
                        => ret'.error = "RateLimited"
                 /\ (n < 2 * maxAttempts /\ ~HasLock(cache, ret'.email))
                        => ret'.next ]_vars

C6_Witness ==
    /\ ret.op = "login"
    /\ ret.email \in Emails
    /\ ret.status = 429
    /\ ret.error = "RateLimited"
    /\ ~HasCounter(cache, ret.email)
    /\ ~HasLock(cache, ret.email)

\* a cache read the gate made for the request r failed: the lock read is
\* always made, the IP-counter read only when the account is not found locked
CacheReadFailed(r, c) ==
    /\ r.email \in Emails
    /\ \/ failsLock(r.gateFail)
       \/ failsIp(r.gateFail) /\ ~HasLock(c, r.email)

\* C5 as stated: whenever a cache read of the gate fails, the gate calls
\* next() and never answers 429.
C5_AnyFailureCallsNext ==
    [][ (ret'.op = "checkLoginAttempts" /\ CacheReadFailed(ret', cache))
          => (ret'.gate.next /\ ret'.gate.status # 429) ]_vars

\* C5 as amended: whenever a cache read of the gate fails, the gate calls
\* next(), except that a failed lock read followed by a successful IP-counter
\* read of 2 * maxAttempts or more is answered 429 RateLimited; a failed read
\* never yields AccountLocked.
C5_FailOpen ==
    [][ (ret'.op = "checkLoginAttempts" /\ CacheReadFailed(ret', cache))
          => \/ ret'.gate.next /\ ret'.gate.status # 429
             \/ /\ ret'.gateFail = "getLock"
                /\ cache[ipKey(ret'.ip)].value >= 2 * maxAttempts
                /\ ret'.gate.kind = "RateLimited" ]_vars

C5_Witness ==
    /\ ret.op = "checkLoginAttempts"
    /\ ret.gateFail = "both"
    /\ ret.email \in Emails
    /\ HasLock(cache, ret.email)
    /\ cache[ipKey(ret.ip)].value >= 2 * maxAttempts
    /\ ret.gate.next

\* C7: whenever isAccountLocked returns isLocked = TRUE its remainingMinutes
\* is at least 1, at every instant relative to lockedUntil.
C7_RemainingAtLeastOne ==
    (ret.op = "isAccountLocked" /\ ret.result.isLocked)
        => ret.result.remainingMinutes >= 1

C7_Witness ==
    /\ ret.op = "isAccountLocked"
    /\ ret.result.isLocked
    /\ DateNow(now) > ret.result.lockedUntil
    /\ ret.result.remainingMinutes = 1

\* C9: once lockedUntil of a lock record has elapsed, and with no
\* clearAttempts call, the record is gone, isAccountLocked reports not locked
\* and the gate calls next() for that email (from an address below the IP
\* cutoff).
C9_LockEndsByExpiry ==
    [][ \A e \in Emails :
          (HasLock(cache, e) /\ DateNow(now') >= cache[lockKey(e)].value.lockedUntil
              /\ ret'.op # "clearAttempts")
            => /\ ~HasLock(cache', e)
               /\ ~isAccountLocked(cache', e, now', FALSE).isLocked
               /\ \A i \in ClientIPs :
                    cache'[ipKey(i)].value < 2 * maxAttempts
                        => checkLoginAttempts(cache', e, i, now', FALSE, FALSE).next ]_vars

C9_Witness ==
    /\ ret.op = "checkLoginAttempts"
    /\ ret.email \in Emails
    /\ lockKey(ret.email) \in ret.afterExpiry
    /\ ret.gateFail = "none"
    /\ ret.gate.next

\* C10: a reconciliation that directly follows a successful reconciliation
\* of the same email creates no identity and no profile and, when no store
\* call fails, succeeds with the same profile id.
C10_OAuthIdempotent ==
    [][ (ret.op = "google" /\ ret.outcome = "ok"
            /\ ret'.op = "google" /\ ret'.email = ret.email)
          => /\ identities' = identities
             /\ \A i \in Ids : profiles'[i].exists = profiles[i].exists
             /\ ~ret'.createdIdentity /\ ~ret'.createdProfile
             /\ ret'.fail = "none" => (ret'.outcome = "ok" /\ ret'.id = ret.id) ]_vars

C10_Witness ==
    /\ ret.op = "google"
    /\ ret.prev.created
    /\ ret.outcome = "ok"
    /\ ret.id = ret.prev.id

\* C11: when an identity exists for the email and no profile has its id, a
\* reconciliation whose store calls succeed creates exactly one profile with
\* that id, role learner and status active; a reconciliation for an email
\* whose identity has a profile creates no profile.
C11_DriftHealedOnce ==
    [][ (ret'.op = "google" /\ ret'.email \in Emails /\ identities[ret'.email] # NoId)
          => LET id == identities[ret'.email]
             IN  /\ (~profiles[id].exists /\ ret'.fail = "none")
                        => /\ profiles'[id].exists
                           /\ profiles'[id].id = id
                           /\ profiles'[id].role = "learner"
                           /\ profiles'[id].account_status = "active"
                           /\ rowCount'[id] = 1
                           /\ \A j \in Ids \ {id} :
                                    rowCount'[j] = rowCount[j]
                                        /\ profiles'[j].exists = profiles[j].exists
                           /\ identities' = identities
                 /\ profiles[id].exists
                        => /\ ~ret'.createdProfile
                           /\ rowCount' = rowCount
                           /\ \A j \in Ids : profiles'[j].exists = profiles[j].exists ]_vars

C11_Witness ==
    /\ ret.op = "google"
    /\ ret.prev.healed
    /\ ret.outcome = "ok"
    /\ ret.id = ret.prev.id
    /\ ~ret.createdProfile
    /\ rowCount[ret.id] = 1

\* C13: a reconciliation that ends with a suspended profile does not end
\* with done(null, userProfile): last_seen_at is not updated and googleLogin
\* issues no token.
C13_SuspendedGetsNoOAuthToken ==
    [][ (ret'.op = "google" /\ ret'.email \in Emails
            /\ identities'[ret'.email] # NoId
            /\ profiles'[identities'[ret'.email]].account_status = "suspended")
          => /\ ret'.outcome # "ok"
             /\ ret'.fail = "none" => ret'.outcome = "fail"
             /\ ret'.token = NoToken
             /\ issued' = issued
             /\ profiles' = profiles ]_vars

C13_Witness ==
    /\ ret.op = "google"
    /\ ret.email \in Emails
    /\ ret.fail = "none"
    /\ ret.outcome = "fail"
    /\ identities[ret.email] # NoId
    /\ profiles[identities[ret.email]].account_status = "suspended"
    /\ issued # {}

C14_ActiveLoginSucceeds ==
    [][ (ret'.op = "AuthController.login" /\ ret'.password = "correct"
            /\ ret'.fail = "none" /\ identities[ret'.email] # NoId
            /\ profiles[identities[ret'.email]].account_status = "active")
          => LET id == identities[ret'.email]
             IN  /\ ret'.status = 200
                 /\ ret'.user = profiles[id]
                 /\ ret'.token = [userId |-> id, email |-> ret'.email,
                                  role |-> profiles[id].role]
                 /\ ret'.token \in issued'
                 /\ profiles'[id].last_seen_at = now
                 /\ profiles' = [profiles EXCEPT ![id].last_seen_at = now] ]_vars

C14_Witness ==
    /\ ret.op = "AuthController.login"
    /\ ret.status = 200
    /\ ret.user.last_seen_at = Never
    /\ ret.user.role = "admin"
    /\ ret.token.role = "admin"
    /\ profiles[ret.user.id].last_seen_at = now

\* C15: a login with verified credentials is answered 403 AccountSuspended
\* for a suspended profile and 403 EmailNotVerified for a profile pending
\* verification, in both cases without token and without last_seen_at
\* update; a login that issues a token is one for an active profile.
C15_StatusGatesLogin ==
    [][ ret'.op = "AuthController.login"
          => LET id == identities[ret'.email]
                 verified == ret'.password = "correct" /\ id # NoId /\ ret'.fail = "none"
             IN  /\ (verified /\ profiles[id].account_status = "suspended")
                        => /\ ret'.status = 403
                           /\ ret'.error = "Your account has been suspended."
                           /\ ret'.token = NoToken
                           /\ profiles' = profiles /\ issued' = issued
                 /\ (verified /\ profiles[id].account_status = "pending_verification")
                        => /\ ret'.status = 403
                           /\ ret'.error = "Please verify your email before logging in."
                           /\ ret'.token = NoToken
                           /\ profiles' = profiles /\ issued' = issued
                 /\ (ret'.token # NoToken \/ issued' # issued)
                        => /\ id # NoId
                           /\ profiles[id].account_status = "active"
                           /\ ret'.status = 200 ]_vars

C15_Witness ==
    /\ ret.op = "AuthController.login"
    /\ ret.password = "correct"
    /\ ret.status = 403
    /\ ret.error = "Your account has been suspended."
    /\ issued # {}
    /\ \E t \in issued : t.userId = identities[ret.email]

\* C16: a login whose credentials verify but whose profile is absent gets
\* the response (status and message) of a login whose credentials do not
\* verify.
C16_ProfileAbsentLooksLikeBadPassword ==
    [][ (ret'.op = "AuthController.login" /\ ret'.password = "correct"
            /\ ret'.fail = "none" /\ identities[ret'.email] # NoId
            /\ ~profiles[identities[ret'.email]].exists)
          => LET bad == login(identities, profiles, ret'.email, "wrong", now, "none")
             IN  /\ ret'.status = bad.status
                 /\ ret'.error = bad.error ]_vars

GenericResetResponse ==
    response(200, TRUE,
             "If an account with that email exists, a password reset link has been sent.")

\* C17: when the directory's password-reset call returns, with or without
\* {error}, forgotPassword answers 200 with the same generic message for an
\* email without account as for an email with one.
C17_ForgotPasswordDoesNotEnumerate ==
    [][ (ret'.op = "forgotPassword" /\ ret'.outcome # "throws")
          => ret'.response = GenericResetResponse ]_vars

C17_Witness ==
    /\ ret.op = "forgotPassword"
    /\ ret.outcome = "error"
    /\ identities[ret.email] = NoId
    /\ ret.response.status = 200
    /\ ret.response.success

\* C18: resendVerificationEmail answers the same whether or not the
\* directory's resend call succeeds.
C18_ResendDoesNotEnumerate ==
    [][ ret'.op = "resendVerificationEmail"
          => ret'.response = resendVerificationEmail(ret'.email, "ok") ]_vars

\* C19: a register whose identity is created but whose profile is not there
\* is answered 500 and creates neither a teachers_info record nor a token; a
\* register for an email that is already registered is answered 409 and
\* changes nothing.
C19_RegisterFailsWithoutProfile ==
    [][ ret'.op = "register"
          => LET id == identities'[ret'.email]
             IN  /\ (~ret'.registered /\ id # NoId /\ ~profiles'[id].exists)
                        => /\ ret'.status = 500
                           /\ ret'.fail = "none"
                                  => ret'.error = "Failed to initialize user profile."
                           /\ teachers' = teachers
                           /\ ret'.token = NoToken
                           /\ issued' = issued
                 /\ ret'.registered
                        => /\ ret'.status = 409
                           /\ ret'.error = "Email already registered"
                           /\ ret'.token = NoToken
                           /\ identities' = identities /\ profiles' = profiles
                           /\ rowCount' = rowCount /\ teachers' = teachers
                           /\ issued' = issued ]_vars

C19_Witness ==
    /\ ret.op = "register"
    /\ ret.role = "teacher"
    /\ ~ret.ran
    /\ ret.fail = "none"
    /\ ret.status = 500
    /\ identities[ret.email] # NoId
    /\ ~profiles[identities[ret.email]].exists
    /\ identities[ret.email] \notin teachers

\* C20: a request with a token is authenticated exactly when the payload has
\* userId and email, a profile with that id exists and its account_status
\* now is not suspended (and the profile lookup does not throw); req.user is
\* the row as it is now, not the claims of the token.
C20_TokenIsRecheckedAgainstProfile ==
    [][ ret'.op = "authenticate"
          => LET payload == ret'.payload
                 profile == findById(profiles, payload.userId)
             IN  /\ ret'.result.outcome = "ok"
                        <=> /\ payload.userId # NoId
                            /\ payload.email # NoEmail
                            /\ profile.exists
                            /\ profile.account_status # "suspended"
                            /\ ~ret'.throws
                 /\ ret'.result.outcome = "ok" => ret'.result.user = profile ]_vars

C20_Witness ==
    /\ ret.op = "authenticate"
    /\ ret.payload \in issued
    /\ ret.payload.email # NoEmail
    /\ ~ret.throws
    /\ ret.result.outcome = "fail"
    /\ ret.result.message = "Account is suspended"
    /\ profiles[ret.payload.userId].last_seen_at # Never


(***************************************************************************)
(* C21. Concurrent trackFailedAttempt calls for one email are all counted: *)
(* in every interleaving within one window the email counter equals its    *)
(* prior value plus the number of calls that have incremented it, and the  *)
(* calls hold pairwise distinct attempts values, which they return.        *)
(***************************************************************************)
C21_ConcurrentCallsAreCounted ==
    \A e \in Emails :
        LET counted == {p \in Trackers : trackers[p].pc # "idle" /\ trackers[p].email = e}
        IN  /\ cache[<<"login_attempts", e>>].value = PriorAttempts(e) + Cardinality(counted)
            /\ \A p, q \in counted :
                    p # q => trackers[p].attempts # trackers[q].attempts
            /\ (ret.op = "tracker" /\ ret.returned)
                    => ret.result.attempts = trackers[ret.tracker].attempts

\* three calls for one email from one IP have returned, two of them having
\* overtaken each other between the two increments
C21_Witness ==
    /\ \A p \in Trackers : trackers[p].pc = "done" /\ trackers[p].email = "a@x.com"
                                /\ trackers[p].ip = "10.0.0.1"
    /\ \E p, q \in Trackers : /\ trackers[p].attempts < trackers[q].attempts
                              /\ trackers[p].ipAttempts > trackers[q].ipAttempts

(***************************************************************************)
(* C22. Within one attempt window the lock record of an email is written   *)
(* at most once: a call that observes a count above the threshold does not *)
(* write it again.                                                         *)
(***************************************************************************)
C22_LockWrittenOnce ==
    \A e \in Emails :
        Cardinality({p \in Trackers : trackers[p].wroteLock /\ trackers[p].email = e}) <= 1


C28_CounterExpiresWithLock ==
    [][ \A e \in Emails :
            /\ (ret'.op = "tick" /\ <<"account_locked", e>> \in ret'.expired)
                    => ~cache'[<<"login_attempts", e>>].present
            /\ (ret.op = "tick" /\ <<"account_locked", e>> \in ret.expired
                    /\ ret'.op = "loginFailure" /\ ret'.email = e /\ ret'.gate.next)
                    => /\ ret'.result.attempts = 1
                       /\ ~ret'.result.isLocked
                       /\ ~cache'[<<"account_locked", e>>].present
      ]_vars

\* the first failed attempt after the expiry of a lock that was written
\* after time 0, later than the first failure of its window
C28_Witness ==
    /\ ret.op = "loginFailure"
    /\ ret.gate.next
    /\ <<"account_locked", ret.email>> \in ret.afterExpiry
    /\ ret.result.attempts = 1
    /\ now > lockoutDuration
    /\ cache[<<"login_attempts_ip", ret.ip>>].value = 1


(***************************************************************************)
(* C24. A failure of the lock notification (the profile lookup or the      *)
(* e-mail send throws) does not fail the lock: the lock record written by  *)
(* the call is in the cache when trackFailedAttempt returns, and it        *)
(* returns isLocked = true with the counts it made.                        *)
(***************************************************************************)
C24_NotificationFailureKeepsLock ==
    [][ (ret'.op = "trackFailedAttempt"
            /\ ret'.fail \in {"findByEmail", "sendNotification"}
            /\ cache'[<<"login_attempts", ret'.email>>].value >= maxAttempts)
        => /\ cache'[<<"account_locked", ret'.email>>].present
           /\ cache'[<<"account_locked", ret'.email>>].value.lockedUntil
                    = DateNow(now) + lockoutDuration * 1000
           /\ cache'[<<"account_locked", ret'.email>>].value.attempts
                    = ret'.result.attempts
           /\ ret'.result.isLocked
           /\ ret'.result.attempts = cache'[<<"login_attempts", ret'.email>>].value
      ]_vars

\* the fifth failure of an email with no lock yet, the e-mail send throwing
C24_Witness ==
    /\ ret.op = "trackFailedAttempt"
    /\ ret.fail = "sendNotification"
    /\ ret.result.attempts = maxAttempts
    /\ ret.result.isLocked
    /\ cache[<<"account_locked", ret.email>>].present


(***************************************************************************)
(* C25. clearAttempts(email, ip) removes the email counter, the IP counter *)
(* and the lock record of that email, and is idempotent: a second call,    *)
(* or a call when none of the three keys exists, leaves the cache as it    *)
(* is and does not throw.                                                  *)
(***************************************************************************)
C25_ClearRemovesAndIsIdempotent ==
    [][ (ret'.op = "clearAttempts" /\ ret'.fail = "none")
        => /\ ~cache'[<<"login_attempts", ret'.email>>].present
           /\ ~cache'[<<"login_attempts_ip", ret'.ip>>].present
           /\ ~cache'[<<"account_locked", ret'.email>>].present
           /\ clearAttempts(cache', ret'.email, ret'.ip, "none") = cache'
           /\ ((ret.op = "clearAttempts" /\ ret.fail = "none"
                    /\ ret.email = ret'.email /\ ret.ip = ret'.ip)
                => cache' = cache)
           /\ ((~cache[<<"login_attempts", ret'.email>>].present
                    /\ ~cache[<<"login_attempts_ip", ret'.ip>>].present
                    /\ ~cache[<<"account_locked", ret'.email>>].present)
                => cache' = cache)
      ]_vars

\* a call that removed all three keys of its email and IP has returned,
\* while a counter of the other IP and the lock of the other email remain
C25_Witness ==
    /\ ret.op = "clearAttempts"
    /\ ret.fail = "none"
    /\ ret.email = "b@x.com"
    /\ ret.ip = "10.0.0.1"
    /\ ret.removed = {<<"login_attempts", "b@x.com">>, <<"login_attempts_ip", "10.0.0.1">>,
                      <<"account_locked", "b@x.com">>}
    /\ cache[<<"login_attempts_ip", "10.0.0.2">>].present
    /\ cache[<<"account_locked", "a@x.com">>].present


(***************************************************************************)
(* C26. When its cache operations succeed, trackFailedAttempt(email, ip)   *)
(* returns attempts and ipAttempts equal to the incremented email and IP   *)
(* counters, remainingAttempts = max(0, maxAttempts - attempts) and        *)
(* isLocked = (attempts >= maxAttempts), and it writes a lock record with  *)
(* lockedUntil = now + lockoutDuration exactly when attempts >= maxAttempts.*)
(***************************************************************************)
C26_TrackResult ==
    [][ (ret'.op = "trackFailedAttempt" /\ ret'.fail = "none")
        => LET r == ret'.result
               emailKey == <<"login_attempts", ret'.email>>
               addrKey == <<"login_attempts_ip", ret'.ip>>
               lock == <<"account_locked", ret'.email>>
           IN  /\ r.attempts = cache[emailKey].value + 1
               /\ r.attempts = cache'[emailKey].value
               /\ r.ipAttempts = cache[addrKey].value + 1
               /\ r.ipAttempts = cache'[addrKey].value
               /\ r.remainingAttempts
                    = (IF maxAttempts - r.attempts > 0 THEN maxAttempts - r.attempts ELSE 0)
               /\ r.isLocked = (r.attempts >= maxAttempts)
               /\ IF r.attempts >= maxAttempts
                      THEN /\ cache'[lock].present
                           /\ cache'[lock].value.lockedAt = now * 1000
                           /\ cache'[lock].value.lockedUntil
                                = now * 1000 + lockoutDuration * 1000
                      ELSE cache'[lock] = cache[lock]
      ]_vars

\* a sixth failure counted after the clock has advanced: nothing remains
\* and the lock record is written at that instant
C26_Witness ==
    /\ ret.op = "trackFailedAttempt"
    /\ ret.fail = "none"
    /\ ret.result.attempts = maxAttempts + 1
    /\ ret.result.remainingAttempts = 0
    /\ ret.result.isLocked
    /\ now > 0
    /\ cache[<<"account_locked", ret.email>>].value.lockedUntil
            = now * 1000 + lockoutDuration * 1000


(***************************************************************************)
(* C29. trackFailedAttempt(e, ip) and clearAttempts(e, ip) change only the *)
(* keys of email e and IP ip, whichever of their calls fail: the counter   *)
(* and the lock record of every other email and the counter of every other *)
(* IP are unchanged.  The counter of ip holds the failures against all     *)
(* emails from ip, and one successful clearAttempts from ip deletes it.    *)
(***************************************************************************)
C29_OnlyOwnKeysChange ==
    [][ (ret'.op \in {"trackFailedAttempt", "clearAttempts"})
        => /\ \A e \in Emails \ {ret'.email} :
                /\ cache'[<<"login_attempts", e>>] = cache[<<"login_attempts", e>>]
                /\ cache'[<<"account_locked", e>>] = cache[<<"account_locked", e>>]
           /\ \A i \in IPs \ {ret'.ip} :
                cache'[<<"login_attempts_ip", i>>] = cache[<<"login_attempts_ip", i>>]
           /\ (ret'.op = "clearAttempts" /\ ret'.fail = "none")
                => ~cache'[<<"login_attempts_ip", ret'.ip>>].present
      ]_vars

\* a clearAttempts for one email deleted its counter and the counter of its
\* IP, the other email keeping counter and lock and the other IP its counter
C29_Witness ==
    /\ ret.op = "clearAttempts"
    /\ ret.fail = "none"
    /\ ret.email = "a@x.com"
    /\ <<"login_attempts_ip", ret.ip>> \in ret.removed
    /\ <<"login_attempts", "a@x.com">> \in ret.removed
    /\ cache[<<"login_attempts", "b@x.com">>].value >= maxAttempts
    /\ cache[<<"account_locked", "b@x.com">>].present
    /\ cache[<<"login_attempts_ip", "10.0.0.2">>].present
    /\ ret.ip = "10.0.0.1"


(***************************************************************************)
(* C30. The result of trackFailedAttempt agrees with the cache also when   *)
(* cache operations fail: it returns isLocked = true only if a lock record *)
(* of the email exists on return, and whenever the email counter is at     *)
(* maxAttempts or above on return a lock record exists.                    *)
(***************************************************************************)
C30_ResultAgreesWithCache ==
    [][ (ret'.op = "trackFailedAttempt")
        => /\ ret'.result.isLocked => cache'[<<"account_locked", ret'.email>>].present
           /\ cache'[<<"login_attempts", ret'.email>>].value >= maxAttempts
                => cache'[<<"account_locked", ret'.email>>].present
      ]_vars


(***************************************************************************)
(* C27. After any sequence of register, OAuth reconciliation, login and    *)
(* admin or self-service profile operations every profile row has role in  *)
(* {learner, teacher, admin} and account_status in {pending_verification,  *)
(* active, suspended}.                                                     *)
(***************************************************************************)
C27_ProfileEnums ==
    \A i \in Ids :
        profiles[i].exists
            => /\ profiles[i].role \in {"learner", "teacher", "admin"}
               /\ profiles[i].account_status
                    \in {"pending_verification", "active", "suspended"}

====
